---- MODULE Spec2Model ----
(***************************************************************************)
(* Model of src/src/index.ts: a single-shot script that resolves a swap    *)
(* route, computes a slippage-bounded minimum output, approves the router  *)
(* if the allowance is too low, and drives one swap user operation through *)
(* sign -> send -> wait.                                                   *)
(*                                                                         *)
(* Amounts exceed TLC's integers (10^18 units per token), so decimal       *)
(* quantities are sequences of decimal digits, most significant first,     *)
(* and a JavaScript Number is a decimal [mant, frac] = mant / 10^frac.     *)
(* The Number arithmetic of line 61 is modelled as exact decimal           *)
(* arithmetic: the binary rounding of the double multiplication and        *)
(* division is not modelled, the decimal rounding of toFixed is.           *)
(***************************************************************************)
EXTENDS Integers, Sequences, FiniteSets, TLC

(***************************************************************************)
(* Bounds of the model.                                                    *)
(***************************************************************************)
\* longest route the resolver returns
MaxHops == 2
\* raw outputs are m / 10^f for m in 0..MaxRawMant (and m = 100)
MaxRawMant == 12
\* decimal digits of a raw output below the token's smallest unit
SubUnitDigits == 1
\* fee estimate components are 0..MaxFee
MaxFee == 9

(***************************************************************************)
(* Program constants.                                                      *)
(***************************************************************************)
slippagePercentage == 5
outTokenDecimals == 18
\* toFixed(18) of size and parseEther both work with 18 digits
sizeDigits == 18
gasIncreaser == 15
zeroAddress == "0x0000000000000000000000000000000000000000"
USDC == "0x9a29e9bab1f0b599d1c6c39b60a79596b3875f56"
WIF == "0xd9d972d687Bc511D833fe2550C456fEC1a857D2C"
routerAddress == "KURU_ROUTER"
functionName == "anyToAnySwap"

NULL == "null"

(***************************************************************************)
(* Decimal digit sequences (bigint, and the digits of a decimal string).   *)
(***************************************************************************)
RECURSIVE Strip(_)
Strip(d) ==
  IF Len(d) <= 1 THEN (IF Len(d) = 0 THEN <<0>> ELSE d)
  ELSE IF d[1] = 0 THEN Strip(Tail(d)) ELSE d

RECURSIVE NatDigits(_)
NatDigits(n) ==
  IF n < 10 THEN <<n>> ELSE Append(NatDigits(n \div 10), n % 10)

Zeros(k) == [i \in 1..k |-> 0]

BigZero == <<0>>

\* d * 10^k
ShiftLeft(d, k) == Strip(d \o Zeros(k))

\* digits of a[1..i] * k + c
RECURSIVE MulCarry(_, _, _, _)
MulCarry(a, k, i, c) ==
  IF i = 0 THEN (IF c = 0 THEN <<>> ELSE NatDigits(c))
  ELSE LET t == a[i] * k + c
       IN  Append(MulCarry(a, k, i - 1, t \div 10), t % 10)

BigMulSmall(a, k) == Strip(MulCarry(a, k, Len(a), 0))

BigInc(a) == Strip(MulCarry(a, 1, Len(a), 1))

\* a - 1 for a > 0
RECURSIVE DecBorrow(_, _)
DecBorrow(a, i) ==
  IF a[i] > 0 THEN [a EXCEPT ![i] = a[i] - 1]
  ELSE DecBorrow([a EXCEPT ![i] = 9], i - 1)

BigDec(a) == Strip(DecBorrow(a, Len(a)))

\* a < b, both without leading zeros
RECURSIVE LexLess(_, _, _)
LexLess(a, b, i) ==
  IF i > Len(a) THEN FALSE
  ELSE IF a[i] # b[i] THEN a[i] < b[i]
  ELSE LexLess(a, b, i + 1)

BigLess(a, b) ==
  LET x == Strip(a)
      y == Strip(b)
  IN  IF Len(x) # Len(y) THEN Len(x) < Len(y) ELSE LexLess(x, y, 1)

BigLeq(a, b) == ~BigLess(b, a)

\* a with at least n + 1 digits
PadTo(a, n) == IF Len(a) > n THEN a ELSE Zeros(n + 1 - Len(a)) \o a

\* a / 10^n, fraction dropped
TruncDrop(a, n) ==
  LET p == PadTo(a, n) IN Strip(SubSeq(p, 1, Len(p) - n))

\* a / 10^n, to the nearest integer, a tie going up
RoundDrop(a, n) ==
  IF n = 0 THEN Strip(a)
  ELSE LET p == PadTo(a, n)
           kept == SubSeq(p, 1, Len(p) - n)
       IN  IF p[Len(p) - n + 1] >= 5 THEN BigInc(kept) ELSE Strip(kept)

(***************************************************************************)
(* Numbers and the conversions of lines 61, 62, 65 and 83.                 *)
(***************************************************************************)
Num(m, f) == [mant |-> Strip(m), frac |-> f]

\* x * k for a small integer k
NumTimes(x, k) == Num(BigMulSmall(x.mant, k), x.frac)

\* x / 100
NumDiv100(x) == Num(x.mant, x.frac + 2)

NumIsZero(x) == Strip(x.mant) = BigZero

\* Number.prototype.toFixed(digits): the decimal string with exactly
\* `digits` fraction digits nearest to x, the larger one on a tie (v is the
\* value of the receiver x, evaluated once)
toFixed(x, digits) ==
  CHOOSE str \in
    {IF v.frac <= digits
     THEN Num(ShiftLeft(v.mant, digits - v.frac), digits)
     ELSE Num(RoundDrop(v.mant, v.frac - digits), digits) : v \in {x}} : TRUE

\* viem parseUnits(value, decimals): the decimal string as an integer count
\* of 10^-decimals, a longer fraction rounded to `decimals` digits
parseUnits(str, decimals) ==
  IF str.frac <= decimals
  THEN ShiftLeft(str.mant, decimals - str.frac)
  ELSE RoundDrop(str.mant, str.frac - decimals)

parseEther(str) == parseUnits(str, 18)

\* const size = 0.0001
size == Num(<<1>>, 4)

\* line 61 keeping the slippage share instead of the remainder
ClippedOutputSlippageShare(output, s) ==
  toFixed(NumDiv100(NumTimes(output, s)), outTokenDecimals)

\* line 61
ClippedOutput(output, s) ==
  toFixed(NumDiv100(NumTimes(output, 100 - s)), outTokenDecimals)

\* lines 61-62
MinTokenOutAmount(output, s) ==
  parseUnits(ClippedOutput(output, s), outTokenDecimals)

\* line 65
AmountInWei == parseUnits(toFixed(size, sizeDigits), outTokenDecimals)

(***************************************************************************)
(* State of one run of main().                                             *)
(***************************************************************************)
VARIABLES
  pc,                  \* the statement main() is about to execute
  exitStatus,          \* "running", "exit0" (process.exit(0)) or "rejected"
  console,             \* console.log lines
  calls,               \* external calls issued so far, in order
  tokenIn,             \* const tokenIn of main
  slippage,            \* slippage percentage applied on line 61
  allowance,           \* on-chain allowance(smart account, router) of tokenIn
  pools,
  routeOutput,
  clippedOutput,
  minTokenOutAmount,
  amountInWei,
  args,
  value,
  data,
  userAccountAddress,
  currentAllowance,
  approvalCall,        \* the call encoded into the approval user operation
  approvalOp,          \* "none", "pending", "success" or "reverted"
  userOperation,
  signedUserOperation,
  sentOperation,       \* what sendUserOperation on line 164 was given
  swapOp,              \* "none", "pending", "success" or "reverted"
  txHash,
  missing,             \* names of the process.env settings that are not set
  userOpFees,          \* const userOpFees of line 144
  allowanceQuery,      \* the arguments getAllowance was called with
  userOpHash1,         \* hash sendUserOperation returned for the approval
  userOpHash,          \* hash sendUserOperation returned for the swap
  waitedFor,           \* hashes given to waitForUserOperationReceipt
  stages               \* orchestrator states entered so far, in order

vars == <<pc, exitStatus, console, calls, tokenIn, slippage, allowance, pools,
          routeOutput, clippedOutput, minTokenOutAmount, amountInWei, args,
          value, data, userAccountAddress, currentAllowance, approvalCall,
          approvalOp, userOperation, signedUserOperation, sentOperation,
          swapOp, txHash, missing, userOpFees, allowanceQuery, userOpHash1,
          userOpHash, waitedFor, stages>>

quoteVars == <<clippedOutput, minTokenOutAmount>>
buildVars == <<amountInWei, args, value, data>>
approvalVars == <<currentAllowance, allowanceQuery, approvalCall, approvalOp,
                  userOpHash1>>
swapVars == <<userOperation, signedUserOperation, sentOperation, swapOp,
              userOpHash, txHash>>
envVars == <<tokenIn, slippage, missing, userOpFees>>

tokenOut == WIF

(***************************************************************************)
(* What the routing oracle may return (PathFinder.findBestPath).           *)
(***************************************************************************)
Orderbooks == {"ob1"}

RawMants == (0..MaxRawMant) \cup {100}

RawFracs == {0} \cup (outTokenDecimals..(outTokenDecimals + SubUnitDigits))

\* every raw output of the quote calculator's domain
RawOutputs == {Num(NatDigits(m), f) : m \in RawMants, f \in RawFracs}

\* the raw outputs the resolver returns in a run of main
RouteRawOutputs ==
  {Num(<<1, 0, 0>>, 0), Num(<<1>>, outTokenDecimals),
   Num(<<6>>, outTokenDecimals + 1)}

NoRoute(tIn, tOut) ==
  [output |-> Num(BigZero, 0),
   route |-> [path |-> <<>>, tokenIn |-> tIn, tokenOut |-> tOut],
   isBuy |-> <<>>, nativeSend |-> <<>>]

Routes(tIn, tOut) ==
  UNION {
    {[output |-> o,
      route |-> [path |-> [i \in 1..n |-> [orderbook |-> p[i]]],
                 tokenIn |-> tIn, tokenOut |-> tOut],
      isBuy |-> b, nativeSend |-> ns] :
        o \in RouteRawOutputs, p \in [1..n -> Orderbooks],
        b \in [1..n -> BOOLEAN], ns \in [1..n -> BOOLEAN]}
    : n \in 1..MaxHops}

RouteOutputs(tIn, tOut) == {NoRoute(tIn, tOut)} \cup Routes(tIn, tOut)

\* allowances the chain may hold when the run starts
Allowances ==
  {BigZero, BigDec(AmountInWei), AmountInWei, BigInc(AmountInWei)}

\* lines 11-15: the settings read from process.env
ConfigKeys == {"KURU_API", "KURU_ROUTER", "RPC_URL", "BUNDLER_URL", "PRIVATE_KEY"}

\* a complete environment, or one with a single setting left out
MissingSettings == {{}} \cup {{k} : k \in ConfigKeys}

\* line 144: const userOpFees = undefined
NoFeeEstimate == [kind |-> "undefined"]

\* what the commented-out estimate of line 144 would supply
FeeEstimates ==
  {[kind |-> "fees", maxPriorityFeePerGas |-> p, maxFeePerGas |-> m] :
     p \in 0..MaxFee, m \in 0..MaxFee}

\* undefined: an optional value is <<>> or <<x>>, and a structured const of
\* main holds <<>> until it is assigned (a string const holds NULL)
Undefined == <<>>

Init ==
  /\ pc = "start"
  /\ missing \in MissingSettings
  /\ userOpFees = NoFeeEstimate
  /\ allowanceQuery = Undefined
  /\ userOpHash1 = NULL
  /\ userOpHash = NULL
  /\ waitedFor = <<>>
  /\ stages = <<>>
  /\ exitStatus = "running"
  /\ console = <<>>
  /\ calls = <<>>
  /\ tokenIn \in {USDC, zeroAddress}
  /\ slippage = slippagePercentage
  /\ allowance \in Allowances
  /\ pools = NULL
  /\ routeOutput = Undefined
  /\ clippedOutput = Undefined
  /\ minTokenOutAmount = Undefined
  /\ amountInWei = Undefined
  /\ args = Undefined
  /\ value = Undefined
  /\ data = Undefined
  /\ userAccountAddress = NULL
  /\ currentAllowance = Undefined
  /\ approvalCall = Undefined
  /\ approvalOp = "none"
  /\ userOperation = Undefined
  /\ signedUserOperation = Undefined
  /\ sentOperation = Undefined
  /\ swapOp = "none"
  /\ txHash = NULL

\* a rejected await that is caught and tried again
RejectsAndRetries ==
  /\ pc' = pc
  /\ exitStatus' = "running"

(***************************************************************************)
(* A rejected await: main()'s promise rejects and nothing handles it       *)
(* (void main()), which ends the process without the success code.         *)
(***************************************************************************)
Rejects ==
  /\ pc' = "exited"
  /\ exitStatus' = "rejected"

\* process.exit(0)
Exit0 ==
  /\ pc' = "exited"
  /\ exitStatus' = "exit0"

\* an external call and whether it returned (TRUE) or threw (FALSE)
Call(name, ok) == calls' = Append(calls, [fn |-> name, ok |-> ok])

\* the orchestrator state an action belongs to, entered once
Enter(stage) ==
  stages' = IF stages # <<>> /\ stages[Len(stages)] = stage
            THEN stages ELSE Append(stages, stage)

\* a setting of lines 11-15 is set; a missing one makes its first use throw
\* (but for BUNDLER_URL, see SendApproval)
Has(k) == k \notin missing

\* lines 11-43, 179: module load; createPublicClient (line 35) needs rpcUrl
Startup ==
  /\ pc = "start"
  /\ \/ /\ Has("RPC_URL")
        /\ pc' = "getAllPools"
        /\ UNCHANGED exitStatus
     \/ /\ ~Has("RPC_URL")
        /\ Rejects
  /\ UNCHANGED <<console, calls, envVars, allowance, pools, routeOutput,
                 quoteVars, buildVars, userAccountAddress, approvalVars,
                 swapVars, waitedFor, stages>>

\* line 50
GetAllPools ==
  /\ pc = "getAllPools"
  /\ Enter("ResolvingRoute")
  /\ \/ /\ Has("KURU_API")
        /\ Call("getAllPools", TRUE)
        /\ pools' = "pools"
        /\ pc' = "findBestPath"
        /\ UNCHANGED exitStatus
     \/ /\ Call("getAllPools", FALSE)
        /\ Rejects
        /\ UNCHANGED pools
  /\ UNCHANGED <<console, envVars, allowance, routeOutput, quoteVars,
                 buildVars, userAccountAddress, approvalVars, swapVars,
                 waitedFor>>

\* lines 51-59
FindBestPath ==
  /\ pc = "findBestPath"
  /\ Enter("ResolvingRoute")
  /\ \/ /\ Call("findBestPath", TRUE)
        /\ \E ro \in RouteOutputs(tokenIn, tokenOut) : routeOutput' = ro
        /\ pc' = "quote"
        /\ UNCHANGED exitStatus
     \/ /\ Call("findBestPath", FALSE)
        /\ Rejects
        /\ UNCHANGED routeOutput
  /\ UNCHANGED <<console, envVars, allowance, pools, quoteVars, buildVars,
                 userAccountAddress, approvalVars, swapVars, waitedFor>>

\* lines 61-62
Quote ==
  /\ pc = "quote"
  /\ Enter("QuotingAmount")
  /\ clippedOutput' = ClippedOutput(routeOutput.output, slippage)
  /\ minTokenOutAmount' = parseUnits(clippedOutput', outTokenDecimals)
  /\ pc' = "buildArgs"
  /\ UNCHANGED <<exitStatus, console, calls, envVars, allowance, pools,
                 routeOutput, buildVars, userAccountAddress, approvalVars,
                 swapVars, waitedFor>>

\* lines 68-76
SwapArgs(ro, amountIn, minOut) ==
  <<[i \in 1..Len(ro.route.path) |-> ro.route.path[i].orderbook],
    ro.isBuy, ro.nativeSend, ro.route.tokenIn, ro.route.tokenOut,
    amountIn, minOut>>

\* lines 64-76
BuildArgs ==
  /\ pc = "buildArgs"
  /\ Enter("BuildingSwap")
  /\ amountInWei' = AmountInWei
  /\ args' = SwapArgs(routeOutput, amountInWei', minTokenOutAmount)
  /\ pc' = "checkRoute"
  /\ UNCHANGED <<exitStatus, console, calls, envVars, allowance, pools,
                 routeOutput, quoteVars, value, data, userAccountAddress,
                 approvalVars, swapVars, waitedFor>>

\* line 78 testing for a negative output only
NoRouteFoundNegative(ro) == BigLess(ro.output.mant, BigZero)

\* line 78: routeOutput.output === 0
NoRouteFound(ro) == NumIsZero(ro.output)

\* lines 78-81
CheckRoute ==
  /\ pc = "checkRoute"
  /\ \/ /\ NoRouteFound(routeOutput)
        /\ console' = Append(console, "No route found")
        /\ Enter("Aborted:NoRoute")
        /\ Exit0
     \/ /\ ~NoRouteFound(routeOutput)
        /\ pc' = "buildCall"
        /\ UNCHANGED <<exitStatus, console, stages>>
  /\ UNCHANGED <<calls, envVars, allowance, pools, routeOutput, quoteVars,
                 buildVars, userAccountAddress, approvalVars, swapVars,
                 waitedFor>>

\* line 83 reading the flag of any hop
SwapValueAnyHop(ro) ==
  IF \E i \in DOMAIN ro.nativeSend : ro.nativeSend[i]
  THEN parseEther(toFixed(size, sizeDigits))
  ELSE BigZero

\* line 83
SwapValue(ro) ==
  IF Len(ro.nativeSend) >= 1 /\ ro.nativeSend[1]
  THEN parseEther(toFixed(size, sizeDigits))
  ELSE BigZero

\* lines 83-88
BuildCall ==
  /\ pc = "buildCall"
  /\ Enter("BuildingSwap")
  /\ value' = SwapValue(routeOutput)
  /\ data' = [abi |-> "Router", functionName |-> functionName, args |-> args]
  /\ pc' = "setupAccount"
  /\ UNCHANGED <<exitStatus, console, calls, envVars, allowance, pools,
                 routeOutput, quoteVars, amountInWei, args,
                 userAccountAddress, approvalVars, swapVars, waitedFor>>

\* lines 90-117; privateKeyToAccount (line 93) needs privateKey
SetupAccount ==
  /\ pc = "setupAccount"
  /\ \/ /\ Has("PRIVATE_KEY")
        /\ Call("createKernelAccount", TRUE)
        /\ userAccountAddress' = "smartAccount"
        /\ console' = Append(console, "smart wallet address:")
        /\ pc' = "checkTokenIn"
        /\ UNCHANGED exitStatus
     \/ /\ Call("createKernelAccount", FALSE)
        /\ Rejects
        /\ UNCHANGED <<userAccountAddress, console>>
  /\ UNCHANGED <<envVars, allowance, pools, routeOutput, quoteVars,
                 buildVars, approvalVars, swapVars, waitedFor, stages>>

\* line 119 testing the output token
NeedsAllowanceOfTokenOut(tIn) == zeroAddress # tokenOut

\* line 119
NeedsAllowance(tIn) == zeroAddress # tIn

\* line 119
CheckTokenIn ==
  /\ pc = "checkTokenIn"
  /\ pc' = IF NeedsAllowance(tokenIn) THEN "getAllowance" ELSE "buildUserOp"
  /\ UNCHANGED <<exitStatus, console, calls, envVars, allowance, pools,
                 routeOutput, quoteVars, buildVars, userAccountAddress,
                 approvalVars, swapVars, waitedFor, stages>>

\* line 120: the arguments of getAllowance
AllowanceQuery(token, owner, spender) ==
  [token |-> token, owner |-> owner, spender |-> spender]

\* lines 120, 173-177; the read encodes routerAddress as the spender
GetAllowance ==
  /\ pc = "getAllowance"
  /\ Enter("CheckingAllowance")
  /\ allowanceQuery' =
       AllowanceQuery(tokenIn, userAccountAddress, routerAddress)
  /\ \/ /\ Has("KURU_ROUTER")
        /\ Call("allowance", TRUE)
        /\ currentAllowance' = allowance
        /\ pc' = "checkAllowance"
        /\ UNCHANGED exitStatus
     \/ /\ Call("allowance", FALSE)
        /\ Rejects
        /\ UNCHANGED currentAllowance
  /\ UNCHANGED <<console, envVars, allowance, pools, routeOutput, quoteVars,
                 buildVars, userAccountAddress, approvalCall, approvalOp,
                 userOpHash1, swapVars, waitedFor>>

\* line 121 with the comparison reversed
NeedsApprovalReversed(current, amount) == BigLess(amount, current)

\* line 121 with <= for <
NeedsApprovalOrEqual(current, amount) == BigLeq(current, amount)

\* line 121
NeedsApproval(current, amount) == BigLess(current, amount)

\* line 121
CheckAllowance ==
  /\ pc = "checkAllowance"
  /\ Enter("CheckingAllowance")
  /\ pc' = IF NeedsApproval(currentAllowance, amountInWei)
           THEN "sendApproval" ELSE "buildUserOp"
  /\ UNCHANGED <<exitStatus, console, calls, envVars, allowance, pools,
                 routeOutput, quoteVars, buildVars, userAccountAddress,
                 approvalVars, swapVars, waitedFor>>

\* lines 124-132 approving an unlimited amount
ApprovalCallUnlimited(token, spender, amount) ==
  [to |-> token, value |-> BigZero,
   data |-> [abi |-> "erc20", functionName |-> "approve",
             args |-> <<spender, ShiftLeft(<<1>>, 77)>>]]

\* lines 124-132
ApprovalCall(token, spender, amount) ==
  [to |-> token, value |-> BigZero,
   data |-> [abi |-> "erc20", functionName |-> "approve",
             args |-> <<spender, amount>>]]

\* lines 122-136 without the await of the receipt
AfterApprovalSentNoWait == "buildUserOp"

\* lines 134-136: the receipt is awaited next
AfterApprovalSent == "waitApproval"

\* lines 122-134; without BUNDLER_URL the bundler transport of line 111 falls
\* back to the chain's RPC URL (line 27), which may or may not serve the call
SendApproval ==
  /\ pc = "sendApproval"
  /\ Enter("ApprovingAllowance")
  /\ approvalCall' = ApprovalCall(tokenIn, routerAddress, amountInWei)
  /\ \/ /\ Call("sendUserOperation:approve", TRUE)
        /\ approvalOp' = "pending"
        /\ userOpHash1' = "userOpHash1"
        /\ pc' = AfterApprovalSent
        /\ UNCHANGED exitStatus
     \/ /\ Call("sendUserOperation:approve", FALSE)
        /\ Rejects
        /\ UNCHANGED <<approvalOp, userOpHash1>>
  /\ UNCHANGED <<console, envVars, allowance, pools, routeOutput, quoteVars,
                 buildVars, userAccountAddress, currentAllowance,
                 allowanceQuery, swapVars, waitedFor>>

\* line 140: what main does with the approval's receipt
AfterApprovalReceipt(success) == "buildUserOp"

\* lines 136-140
WaitApproval ==
  /\ pc = "waitApproval"
  /\ Enter("ApprovingAllowance")
  /\ waitedFor' = Append(waitedFor, userOpHash1)
  /\ \/ /\ Call("waitForUserOperationReceipt:approve", TRUE)
        /\ \E success \in BOOLEAN :
             /\ approvalOp' = IF success THEN "success" ELSE "reverted"
             /\ allowance' = IF success THEN approvalCall.data.args[2]
                             ELSE allowance
             /\ pc' = AfterApprovalReceipt(success)
        /\ console' = Append(console, "approval tx: ")
        /\ UNCHANGED exitStatus
     \/ /\ Call("waitForUserOperationReceipt:approve", FALSE)
        /\ Rejects
        /\ UNCHANGED <<approvalOp, allowance, console>>
  /\ UNCHANGED <<envVars, pools, routeOutput, quoteVars, buildVars,
                 userAccountAddress, currentAllowance, allowanceQuery,
                 approvalCall, userOpHash1, swapVars>>

\* lines 155, 158: userOpFees?.maxPriorityFeePerGas, userOpFees?.maxFeePerGas
FeeComponent(fees, field) ==
  IF fees.kind = "undefined" THEN Undefined ELSE <<fees[field]>>

\* lines 155-160: x ? (BigInt(gasIncreaser) * x) / BigInt(10) : undefined
EscalatedFee(x) ==
  IF x # Undefined /\ x[1] # 0
  THEN <<(gasIncreaser * x[1]) \div 10>>
  ELSE Undefined

\* lines 147-161
UserOperation(v, d, fees) ==
  [callData |-> <<[to |-> routerAddress, value |-> v, data |-> d]>>,
   maxPriorityFeePerGas |->
     EscalatedFee(FeeComponent(fees, "maxPriorityFeePerGas")),
   maxFeePerGas |-> EscalatedFee(FeeComponent(fees, "maxFeePerGas"))]

\* lines 144-161; encodeCalls (line 148) encodes routerAddress
BuildUserOp ==
  /\ pc = "buildUserOp"
  /\ Enter("BuildingSwap")
  /\ \/ /\ Has("KURU_ROUTER")
        /\ userOperation' = UserOperation(value, data, userOpFees)
        /\ pc' = "sign"
        /\ UNCHANGED exitStatus
     \/ /\ ~Has("KURU_ROUTER")
        /\ Rejects
        /\ UNCHANGED userOperation
  /\ UNCHANGED <<console, calls, envVars, allowance, pools,
                 routeOutput, quoteVars, buildVars, userAccountAddress,
                 approvalVars, signedUserOperation, sentOperation, swapOp,
                 userOpHash, txHash, waitedFor>>

\* line 163
Sign ==
  /\ pc = "sign"
  /\ Enter("SubmittingSwap")
  /\ \/ /\ Call("signUserOperation", TRUE)
        /\ signedUserOperation' =
             [op |-> userOperation, signature |-> "signature"]
        /\ pc' = "send"
        /\ UNCHANGED exitStatus
     \/ /\ Call("signUserOperation", FALSE)
        /\ Rejects
        /\ UNCHANGED signedUserOperation
  /\ UNCHANGED <<console, envVars, allowance, pools, routeOutput, quoteVars,
                 buildVars, userAccountAddress, approvalVars, userOperation,
                 sentOperation, swapOp, userOpHash, txHash, waitedFor>>

\* line 164 sending the operation as built, without its signature
OperationToSendUnsigned(signed, unsigned) ==
  [op |-> unsigned, signature |-> "none"]

\* line 164: the argument of sendUserOperation
OperationToSend(signed, unsigned) == signed

\* line 164
Send ==
  /\ pc = "send"
  /\ Enter("SubmittingSwap")
  /\ sentOperation' = OperationToSend(signedUserOperation, userOperation)
  /\ \/ /\ Call("sendUserOperation:swap", TRUE)
        /\ swapOp' = "pending"
        /\ userOpHash' = "userOpHash"
        /\ pc' = "wait"
        /\ UNCHANGED exitStatus
     \/ /\ Call("sendUserOperation:swap", FALSE)
        /\ Rejects
        /\ UNCHANGED <<swapOp, userOpHash>>
  /\ UNCHANGED <<console, envVars, allowance, pools, routeOutput, quoteVars,
                 buildVars, userAccountAddress, approvalVars, userOperation,
                 signedUserOperation, txHash, waitedFor>>

\* line 168: what main does with the swap's receipt
AfterSwapReceipt(success) == "report"

\* lines 165-168
Wait ==
  /\ pc = "wait"
  /\ Enter("SubmittingSwap")
  /\ waitedFor' = Append(waitedFor, userOpHash)
  /\ \/ /\ Call("waitForUserOperationReceipt:swap", TRUE)
        /\ \E success \in BOOLEAN :
             /\ swapOp' = IF success THEN "success" ELSE "reverted"
             /\ pc' = AfterSwapReceipt(success)
        /\ txHash' = "transactionHash"
        /\ UNCHANGED exitStatus
     \/ /\ Call("waitForUserOperationReceipt:swap", FALSE)
        /\ Rejects
        /\ UNCHANGED <<swapOp, txHash>>
  /\ UNCHANGED <<console, envVars, allowance, pools, routeOutput, quoteVars,
                 buildVars, userAccountAddress, approvalVars, userOperation,
                 signedUserOperation, sentOperation, userOpHash>>

\* lines 169-170
Report ==
  /\ pc = "report"
  /\ Enter("Confirmed")
  /\ console' = Append(console, "op tx hash:")
  /\ Exit0
  /\ UNCHANGED <<calls, envVars, allowance, pools, routeOutput, quoteVars,
                 buildVars, userAccountAddress, approvalVars, swapVars,
                 waitedFor>>

Next ==
  \/ Startup
  \/ GetAllPools
  \/ FindBestPath
  \/ Quote
  \/ BuildArgs
  \/ CheckRoute
  \/ BuildCall
  \/ SetupAccount
  \/ CheckTokenIn
  \/ GetAllowance
  \/ CheckAllowance
  \/ SendApproval
  \/ WaitApproval
  \/ BuildUserOp
  \/ Sign
  \/ Send
  \/ Wait
  \/ Report

Spec == Init /\ [][Next]_vars

\* every awaited call eventually returns or throws, and main runs on
FairSpec == Spec /\ WF_vars(Next)

(***************************************************************************)
(* The quote calculator alone (lines 61-62), over its whole input domain:  *)
(* every raw output and every slippage percentage in 0..100.               *)
(***************************************************************************)
QuoteInit ==
  /\ pc = "quote"
  /\ missing = {}
  /\ userOpFees = NoFeeEstimate
  /\ allowanceQuery = Undefined
  /\ userOpHash1 = NULL
  /\ userOpHash = NULL
  /\ waitedFor = <<>>
  /\ stages = <<"ResolvingRoute">>
  /\ exitStatus = "running"
  /\ console = <<>>
  /\ calls = <<[fn |-> "getAllPools", ok |-> TRUE],
              [fn |-> "findBestPath", ok |-> TRUE]>>
  /\ tokenIn = USDC
  /\ slippage \in 0..100
  /\ allowance = BigZero
  /\ pools = "pools"
  /\ \E o \in RawOutputs :
       routeOutput = [NoRoute(USDC, tokenOut) EXCEPT !.output = o]
  /\ clippedOutput = Undefined
  /\ minTokenOutAmount = Undefined
  /\ amountInWei = Undefined
  /\ args = Undefined
  /\ value = Undefined
  /\ data = Undefined
  /\ userAccountAddress = NULL
  /\ currentAllowance = Undefined
  /\ approvalCall = Undefined
  /\ approvalOp = "none"
  /\ userOperation = Undefined
  /\ signedUserOperation = Undefined
  /\ sentOperation = Undefined
  /\ swapOp = "none"
  /\ txHash = NULL

QuoteNext == Quote

QuoteSpec == QuoteInit /\ [][QuoteNext]_vars

(***************************************************************************)
(* The fee escalation alone (lines 144-161), over every fee estimate the   *)
(* commented-out call of line 144 could supply, and over none.             *)
(***************************************************************************)
FeeRoute ==
  [output |-> Num(<<1, 0, 0>>, 0),
   route |-> [path |-> <<[orderbook |-> "ob1"]>>,
              tokenIn |-> USDC, tokenOut |-> tokenOut],
   isBuy |-> <<TRUE>>, nativeSend |-> <<FALSE>>]

FeeInit ==
  /\ pc = "buildUserOp"
  /\ missing = {}
  /\ userOpFees \in {NoFeeEstimate} \cup FeeEstimates
  /\ exitStatus = "running"
  /\ console = <<"smart wallet address:">>
  /\ calls = <<[fn |-> "getAllPools", ok |-> TRUE],
              [fn |-> "findBestPath", ok |-> TRUE],
              [fn |-> "createKernelAccount", ok |-> TRUE],
              [fn |-> "allowance", ok |-> TRUE]>>
  /\ tokenIn = USDC
  /\ slippage = slippagePercentage
  /\ allowance = AmountInWei
  /\ pools = "pools"
  /\ routeOutput = FeeRoute
  /\ clippedOutput = ClippedOutput(FeeRoute.output, slippagePercentage)
  /\ minTokenOutAmount = MinTokenOutAmount(FeeRoute.output, slippagePercentage)
  /\ amountInWei = AmountInWei
  /\ args = SwapArgs(FeeRoute, AmountInWei, minTokenOutAmount)
  /\ value = SwapValue(FeeRoute)
  /\ data = [abi |-> "Router", functionName |-> functionName, args |-> args]
  /\ userAccountAddress = "smartAccount"
  /\ currentAllowance = AmountInWei
  /\ allowanceQuery = AllowanceQuery(USDC, "smartAccount", routerAddress)
  /\ approvalCall = Undefined
  /\ approvalOp = "none"
  /\ userOpHash1 = NULL
  /\ userOperation = Undefined
  /\ signedUserOperation = Undefined
  /\ sentOperation = Undefined
  /\ swapOp = "none"
  /\ userOpHash = NULL
  /\ txHash = NULL
  /\ waitedFor = <<>>
  /\ stages = <<"ResolvingRoute", "QuotingAmount", "BuildingSwap",
                "CheckingAllowance">>

FeeNext == BuildUserOp

FeeSpec == FeeInit /\ [][FeeNext]_vars

(***************************************************************************)
(* Vocabulary of the properties.                                           *)
(***************************************************************************)
Issued(name) == \E i \in DOMAIN calls : calls[i].fn = name

Returned(name) == \E i \in DOMAIN calls : calls[i] = [fn |-> name, ok |-> TRUE]

Threw(name) == \E i \in DOMAIN calls : calls[i] = [fn |-> name, ok |-> FALSE]

Count(name) == Cardinality({i \in DOMAIN calls : calls[i].fn = name})

ChainCalls ==
  {"createKernelAccount", "allowance", "sendUserOperation:approve",
   "waitForUserOperationReceipt:approve", "signUserOperation",
   "sendUserOperation:swap", "waitForUserOperationReceipt:swap"}

SwapCalls == {"signUserOperation", "sendUserOperation:swap"}

RouteResolved == Returned("findBestPath")

\* x < y for two decimals
NumLess(x, y) ==
  LET f == IF x.frac > y.frac THEN x.frac ELSE y.frac
  IN  BigLess(ShiftLeft(x.mant, f - x.frac), ShiftLeft(y.mant, f - y.frac))

NumLeq(x, y) == ~NumLess(y, x)

\* size = 0.0001 at 18 decimals, 10^14: the input amount and the native value
InputAmount == <<1, 0, 0, 0, 0, 0, 0, 0, 0, 0, 0, 0, 0, 0, 0>>

\* the case of C1: an ERC-20 input, a route, an allowance read too low
C1_Case ==
  /\ tokenIn # zeroAddress
  /\ RouteResolved
  /\ ~NumIsZero(routeOutput.output)
  /\ Returned("allowance")
  /\ BigLess(currentAllowance, InputAmount)

(***************************************************************************)
(* C1: when tokenIn is not the native sentinel, the route output is        *)
(* nonzero and the allowance read is below the input amount, exactly one   *)
(* approval user operation is submitted and its receipt is obtained before *)
(* the swap user operation is signed or sent; the swap is never sent while *)
(* the approval is unconfirmed.                                            *)
(***************************************************************************)
C1_ApprovalBeforeSwap ==
  C1_Case =>
    /\ Count("sendUserOperation:approve") <= 1
    /\ pc \in {"waitApproval", "buildUserOp", "sign", "send", "wait", "report"}
         => Count("sendUserOperation:approve") = 1
    /\ \A j \in DOMAIN calls :
         calls[j].fn \in SwapCalls =>
           /\ Count("sendUserOperation:approve") = 1
           /\ \E i \in 1..(j - 1) :
                calls[i] = [fn |-> "waitForUserOperationReceipt:approve",
                            ok |-> TRUE]
    /\ Issued("sendUserOperation:swap") => approvalOp \in {"success", "reverted"}

C1_Witness ==
  /\ C1_Case
  /\ Returned("sendUserOperation:swap")
  /\ Count("sendUserOperation:approve") = 1

(***************************************************************************)
(* C2: when the resolver returns output 0 the run reads no allowance,      *)
(* submits no approval, signs and sends no swap, logs "No route found"     *)
(* and exits with code 0.                                                  *)
(***************************************************************************)
C2_NoRouteAbort ==
  (RouteResolved /\ NumIsZero(routeOutput.output)) =>
    /\ \A i \in DOMAIN calls : calls[i].fn \notin ChainCalls
    /\ approvalOp = "none" /\ swapOp = "none"
    /\ pc \in {"quote", "buildArgs", "checkRoute", "exited"}
    /\ pc = "exited" =>
         /\ exitStatus = "exit0"
         /\ console = <<"No route found">>

C2_Witness ==
  /\ RouteResolved
  /\ NumIsZero(routeOutput.output)
  /\ pc = "exited"
  /\ exitStatus = "exit0"

\* the approval was rejected, its wait threw, or its receipt says failure
ApprovalFailed ==
  \/ Threw("sendUserOperation:approve")
  \/ Threw("waitForUserOperationReceipt:approve")
  \/ approvalOp = "reverted"

(***************************************************************************)
(* C3: when the approval user operation is rejected, its wait fails or     *)
(* its receipt reports an unsuccessful operation, the run ends fatally     *)
(* and the swap user operation is never signed or sent.                    *)
(***************************************************************************)
C3_ApprovalFailureIsFatal ==
  ApprovalFailed =>
    /\ \A i \in DOMAIN calls : calls[i].fn \notin SwapCalls
    /\ exitStatus # "exit0"

\* the allowance read covers the input amount
C4_Case ==
  /\ Returned("allowance")
  /\ BigLeq(InputAmount, currentAllowance)

(***************************************************************************)
(* C4: when the allowance read is at least the input amount (equality      *)
(* included) no approval user operation is built or submitted, and one     *)
(* swap user operation is submitted.                                       *)
(***************************************************************************)
C4_NoApprovalWhenSufficient ==
  C4_Case =>
    /\ ~Issued("sendUserOperation:approve")
    /\ ~Issued("waitForUserOperationReceipt:approve")
    /\ approvalOp = "none"
    /\ pc \in {"checkAllowance", "buildUserOp", "sign", "send", "wait",
               "report", "exited"}
    /\ Count("sendUserOperation:swap") <= 1
    /\ (pc \in {"wait", "report"} \/ exitStatus = "exit0")
         => Count("sendUserOperation:swap") = 1

C4_Witness ==
  /\ Returned("allowance")
  /\ currentAllowance = InputAmount
  /\ Returned("sendUserOperation:swap")
  /\ ~Issued("sendUserOperation:approve")

(***************************************************************************)
(* C5: when tokenIn is the native sentinel the run reads no allowance and  *)
(* submits no approval, whatever the amount: the swap's signing follows    *)
(* the account setup directly.                                             *)
(***************************************************************************)
C5_NativeSkipsAllowance ==
  tokenIn = zeroAddress =>
    /\ ~Issued("allowance")
    /\ ~Issued("sendUserOperation:approve")
    /\ ~Issued("waitForUserOperationReceipt:approve")
    /\ approvalOp = "none"
    /\ pc \notin {"getAllowance", "checkAllowance", "sendApproval",
                  "waitApproval"}
    /\ \A j \in DOMAIN calls :
         calls[j].fn = "signUserOperation" =>
           j > 1 /\ calls[j - 1].fn = "createKernelAccount"

C5_Witness ==
  /\ tokenIn = zeroAddress
  /\ Returned("sendUserOperation:swap")

(***************************************************************************)
(* C6: the process exits with the success code only after the clean        *)
(* no-route abort or after the swap's receipt was obtained and the swap    *)
(* succeeded; every fatal error ends it without the success code.          *)
(***************************************************************************)
C6_SuccessExitOnlyWhenConfirmed ==
  /\ exitStatus = "exit0" =>
       \/ RouteResolved /\ NumIsZero(routeOutput.output)
       \/ Returned("waitForUserOperationReceipt:swap") /\ swapOp = "success"
  /\ (\E i \in DOMAIN calls : ~calls[i].ok) => exitStatus # "exit0"

\* floor(r * (100 - s) / 100 * 10^outTokenDecimals)
FloorMinOutput(r, s) ==
  LET n == BigMulSmall(r.mant, 100 - s)
      f == r.frac + 2
  IN  IF f <= outTokenDecimals
      THEN ShiftLeft(n, outTokenDecimals - f)
      ELSE TruncDrop(n, f - outTokenDecimals)

\* lines 61-62 have run
Quoted == RouteResolved /\ pc \notin {"findBestPath", "quote"}

(***************************************************************************)
(* C7: the minimum output passed to the swap is                            *)
(* floor(r * (100 - s) / 100) in the output token's smallest unit:         *)
(* truncated to the token's precision, never rounded up.                   *)
(***************************************************************************)
C7_MinOutputIsFloor ==
  Quoted => minTokenOutAmount = FloorMinOutput(routeOutput.output, slippage)

(***************************************************************************)
(* C8: for every slippage s in 0..100 and raw output r >= 0,               *)
(* minOutput(r, s) <= r in the token's smallest unit,                      *)
(* minOutput(r, 0) = r and minOutput(r, 100) = 0.                          *)
(***************************************************************************)
C8_MinOutputBounds ==
  Quoted =>
    /\ NumLeq(Num(minTokenOutAmount, outTokenDecimals), routeOutput.output)
    /\ slippage = 0 =>
         ~NumLess(routeOutput.output, Num(minTokenOutAmount, outTokenDecimals))
    /\ slippage = 100 => minTokenOutAmount = BigZero

(***************************************************************************)
(* C9: minOutput is non-decreasing in the raw output for a fixed slippage  *)
(* and non-increasing in the slippage for a fixed raw output.              *)
(***************************************************************************)
C9_MinOutputMonotone ==
  Quoted =>
    /\ \A r2 \in RawOutputs :
         NumLeq(r2, routeOutput.output) =>
           BigLeq(MinTokenOutAmount(r2, slippage), minTokenOutAmount)
    /\ \A s2 \in 0..100 :
         s2 >= slippage =>
           BigLeq(MinTokenOutAmount(routeOutput.output, s2), minTokenOutAmount)

C9_Witness ==
  /\ Quoted
  /\ slippage = 5
  /\ routeOutput.output = Num(<<1, 0, 0>>, 0)
  /\ minTokenOutAmount = ShiftLeft(<<9, 5>>, outTokenDecimals)

\* lines 83-88 have run
CallBuilt == Issued("createKernelAccount")

\* hops of the resolved route
Hops == Len(routeOutput.route.path)

(***************************************************************************)
(* C10: the value attached to the swap is nonzero only if hop 0 has        *)
(* nativeSend = true, and then equals the input amount in native units;    *)
(* later hops' flags do not affect it; the encoded venue, isBuy and        *)
(* nativeSend arrays hold one entry per hop, in route order.               *)
(***************************************************************************)
C10_ValueFromFirstHop ==
  CallBuilt =>
    /\ value = IF routeOutput.nativeSend[1] THEN InputAmount ELSE BigZero
    /\ data.args = args
    /\ \A k \in 1..3 : Len(args[k]) = Hops
    /\ \A i \in 1..Hops :
         /\ args[1][i] = routeOutput.route.path[i].orderbook
         /\ args[2][i] = routeOutput.isBuy[i]
         /\ args[3][i] = routeOutput.nativeSend[i]
    /\ Issued("signUserOperation") =>
         /\ userOperation.callData[1].value = value
         /\ userOperation.callData[1].data = data

C10_Witness ==
  /\ Returned("sendUserOperation:swap")
  /\ Hops = 2
  /\ routeOutput.nativeSend = <<TRUE, FALSE>>
  /\ sentOperation.op.callData[1].value = InputAmount

\* external calls a run has issued for a route, an allowance or an operation
PipelineCalls ==
  {"getAllPools", "findBestPath", "allowance", "sendUserOperation:approve",
   "signUserOperation", "sendUserOperation:swap"}

(***************************************************************************)
(* C11: when a required setting is missing, the run fails at startup with  *)
(* no partial execution: no route resolution, no allowance read and no     *)
(* user operation is issued, and the run does not end as a success.        *)
(***************************************************************************)
C11_ConfigErrorIsStartupFatal ==
  missing # {} =>
    /\ \A name \in PipelineCalls : ~Issued(name)
    /\ exitStatus # "exit0"

\* the swap user operation has been assembled (lines 147-161)
UserOpBuilt == pc = "sign"

\* floor(15 * x / 10)
OneAndAHalf(x) == (15 * x) \div 10

SendCalls == {"sendUserOperation:approve", "sendUserOperation:swap"}

(***************************************************************************)
(* C13: a failed external call ends the run at once, with no retry: the    *)
(* failed call is the last call the run issues, the run has ended without  *)
(* the success code, and no user operation is sent twice.                  *)
(***************************************************************************)
C13_FailureAbortsNoRetry ==
  /\ \A i \in DOMAIN calls :
       ~calls[i].ok =>
         /\ i = Len(calls)
         /\ pc = "exited"
         /\ exitStatus = "rejected"
  /\ \A name \in SendCalls : Count(name) <= 1

\* the approval went through and the send of the swap failed
C13_Witness ==
  /\ Returned("waitForUserOperationReceipt:approve")
  /\ Threw("sendUserOperation:swap")
  /\ pc = "exited"

\* the exact input amount encoded in the swap call of the user operation
SwapInputAmount == userOperation.callData[1].data.args[6]

(***************************************************************************)
(* C14: when the swap user operation is sent with an ERC-20 tokenIn, the   *)
(* allowance of (tokenIn, smart account, router) on the chain is at least  *)
(* the swap's input amount (no other actor changes the allowance: it       *)
(* changes only by the run's own approval).                                *)
(***************************************************************************)
C14_AllowanceCoversSwapInput ==
  (tokenIn # zeroAddress /\ Issued("sendUserOperation:swap")) =>
    BigLeq(SwapInputAmount, allowance)

\* every call named b in the log comes after a returned call named a
After(a, b) ==
  \A j \in DOMAIN calls :
    calls[j].fn = b =>
      \E i \in 1..(j - 1) : calls[i] = [fn |-> a, ok |-> TRUE]

(***************************************************************************)
(* C15: in a run that reaches SubmittingSwap the swap user operation is    *)
(* signed once and sent once, the send comes after the signing returned,   *)
(* and what is sent is the signed operation, which still wraps the         *)
(* operation as built; the wait for the receipt comes after the send       *)
(* returned its hash, and is the wait for that hash.                       *)
(***************************************************************************)
C15_SwapSignedOnceSentOnce ==
  /\ Count("signUserOperation") <= 1
  /\ Count("sendUserOperation:swap") <= 1
  /\ Count("waitForUserOperationReceipt:swap") <= 1
  /\ After("signUserOperation", "sendUserOperation:swap")
  /\ After("sendUserOperation:swap", "waitForUserOperationReceipt:swap")
  /\ Returned("signUserOperation") => signedUserOperation.op = userOperation
  /\ Issued("sendUserOperation:swap") =>
       /\ sentOperation = signedUserOperation
       /\ sentOperation.signature = "signature"
  /\ Issued("waitForUserOperationReceipt:swap") =>
       /\ userOpHash # NULL
       /\ waitedFor[Len(waitedFor)] = userOpHash

\* the swap was signed, sent and its receipt awaited
C15_Witness ==
  /\ Returned("waitForUserOperationReceipt:swap")
  /\ sentOperation = signedUserOperation
  /\ waitedFor[Len(waitedFor)] = userOpHash

\* the resolver returned an output of zero
ZeroRoute == RouteResolved /\ NumIsZero(routeOutput.output)

\* the states that may follow a state in the specified order (the allowance
\* check is left out for the native currency, the approval when not needed)
StageSuccessors(stage) ==
  CASE stage = "ResolvingRoute" -> {"QuotingAmount", "Aborted:NoRoute"}
    [] stage = "QuotingAmount" -> {"BuildingSwap"}
    [] stage = "BuildingSwap" ->
         IF tokenIn = zeroAddress THEN {"SubmittingSwap"}
         ELSE {"CheckingAllowance"}
    [] stage = "CheckingAllowance" -> {"ApprovingAllowance", "SubmittingSwap"}
    [] stage = "ApprovingAllowance" -> {"SubmittingSwap"}
    [] stage = "SubmittingSwap" -> {"Confirmed"}
    [] OTHER -> {}

(***************************************************************************)
(* C16: the run follows the specified state order.  With a resolver output *)
(* of zero it goes from ResolvingRoute straight to Aborted:NoRoute, never  *)
(* entering QuotingAmount or BuildingSwap; otherwise it passes through     *)
(* QuotingAmount, BuildingSwap, CheckingAllowance, (ApprovingAllowance,)   *)
(* SubmittingSwap, Confirmed in that order, each state following one it    *)
(* may follow and none entered twice.                                      *)
(***************************************************************************)
C16_StateOrder ==
  /\ stages # <<>> => stages[1] = "ResolvingRoute"
  /\ \A i \in 1..(Len(stages) - 1) :
       stages[i + 1] \in StageSuccessors(stages[i])
  /\ \A i, j \in DOMAIN stages : stages[i] = stages[j] => i = j
  /\ ZeroRoute =>
       /\ \A i \in DOMAIN stages :
            stages[i] \in {"ResolvingRoute", "Aborted:NoRoute"}
       /\ pc = "exited" /\ exitStatus = "exit0" =>
            stages = <<"ResolvingRoute", "Aborted:NoRoute">>

\* the allowance read returned and was compared with the input amount
AllowanceCompared == Returned("allowance") /\ pc # "checkAllowance"

\* the swap user operation exists
SwapOpExists == UserOpBuilt \/ Issued("signUserOperation")

(***************************************************************************)
(* C17: one amount and one counterparty throughout a run.  The approval    *)
(* is sent exactly when the allowance read is below the input amount       *)
(* encoded in the swap call, and it grants that same amount; the spender   *)
(* of the allowance read, the spender of the approval and the target of    *)
(* the swap call are the one router address; the token whose allowance is  *)
(* read is the token approved.                                             *)
(***************************************************************************)
C17_OneAmountOneRouter ==
  /\ AllowanceCompared =>
       /\ amountInWei = data.args[6]
       /\ (pc = "sendApproval" \/ Issued("sendUserOperation:approve"))
            <=> BigLess(currentAllowance, data.args[6])
  /\ Issued("sendUserOperation:approve") =>
       /\ approvalCall.data.args[2] = data.args[6]
       /\ approvalCall.data.args[1] = allowanceQuery.spender
       /\ approvalCall.to = allowanceQuery.token
       /\ approvalCall.to = data.args[4]
  /\ SwapOpExists =>
       /\ SwapInputAmount = data.args[6]
       /\ userOperation.callData[1].to = routerAddress
       /\ Returned("allowance") =>
            allowanceQuery.spender = userOperation.callData[1].to
       /\ Issued("sendUserOperation:approve") =>
            /\ approvalCall.data.args[1] = userOperation.callData[1].to
            /\ approvalCall.data.args[2] = SwapInputAmount

\* an approval was confirmed and the swap sent, all for the same amount
C17_Witness ==
  /\ Returned("waitForUserOperationReceipt:approve")
  /\ Issued("sendUserOperation:swap")
  /\ approvalCall.data.args[2] = SwapInputAmount
  /\ allowanceQuery.spender = userOperation.callData[1].to

\* the run has ended
Ended == pc = "exited"

\* the last orchestrator state the run entered
LastStage == IF stages = <<>> THEN "none" ELSE stages[Len(stages)]

\* the three terminal outcomes
AbortedNoRoute == exitStatus = "exit0" /\ LastStage = "Aborted:NoRoute"

Confirmed == exitStatus = "exit0" /\ LastStage = "Confirmed"

FatalError == exitStatus = "rejected"

OneOutcome ==
  \/ AbortedNoRoute /\ ~Confirmed /\ ~FatalError
  \/ Confirmed /\ ~AbortedNoRoute /\ ~FatalError
  \/ FatalError /\ ~AbortedNoRoute /\ ~Confirmed

\* user operations sent whose receipt has not been obtained
Unconfirmed ==
  {op \in {"approve", "swap"} :
     (IF op = "approve" THEN approvalOp ELSE swapOp) = "pending"}

(***************************************************************************)
(* C18: when every external call eventually returns or fails, the run      *)
(* eventually ends; an ended run has exactly one terminal outcome          *)
(* (Aborted:NoRoute, Confirmed or fatal error), keeps it, and issues no    *)
(* external call afterwards; and at every moment at most one user          *)
(* operation is sent but not yet confirmed.                                *)
(***************************************************************************)
C18_RunEndsOnce ==
  /\ <>Ended
  /\ [](Ended => OneOutcome)
  /\ [](~Ended => exitStatus = "running")
  /\ [][~Ended]_<<pc, exitStatus, calls>>
  /\ [](Cardinality(Unconfirmed) <= 1)

\* an approval and a swap were both sent and confirmed, and the run ended
C18_Witness ==
  /\ Ended
  /\ Confirmed
  /\ approvalOp = "success"
  /\ swapOp = "success"

====
